---- MODULE Spec2Model ----
(***************************************************************************)
(* Incremental update engine of fec_campaign_data (scripts/fec_update and  *)
(* scripts/fec): change detection on HTTP cache validators, per-record     *)
(* integration with replace-by-cycle upsert into CSV outputs, and the      *)
(* UpdateState store.                                                      *)
(*                                                                         *)
(* A Python `None` is the empty tuple <<>> and a present value v is <<v>>, *)
(* so that truthiness (`if x and y`) is modelled as the code evaluates it. *)
(***************************************************************************)
EXTENDS Integers, Sequences, FiniteSets, TLC

VARIABLES
    upstream,     \* [Sources -> 0..MaxVer]: published version of each archive, 0 = 404
    stateDisk,    \* content of .fec_update_state.json
    state,        \* the in-memory UpdateState of the running process
    out,          \* [DatasetNames -> file]: <data_dir>/<output_file>
    bak,          \* [DatasetNames -> file]: <output_file>.csv.bak
    tmp,          \* [DatasetNames -> file]: <output_file>.csv.tmp
    pc,           \* position of the process in cli()/run()
    runs,         \* number of process starts so far (also the wall clock)
    cycles,       \* run(): the --cycle list
    dry_run,      \* run(): --dry-run
    force,        \* run(): --force
    changes,      \* run(): list of ChangeInfo
    idx,          \* integrate_changes(): index of the current change (1-based)
    successful,   \* integrate_changes(): counter
    failed,       \* integrate_changes(): counter
    target,       \* process_change(): dataset whose update_cycle is running
    result,       \* update_cycle(): the DataFrame handed to write_output
    log,          \* history: outcome of each attempted change of this run
    hist,         \* history: disk and memory snapshots taken during this run
    last,         \* history: the last completed update_cycle of each output file
    faults,       \* number of failures and kills injected so far
    hc,           \* has_changed() applied on its own (SpecDetect)
    dl,           \* download_with_retry() on its own (SpecDownload)
    agg,          \* SummarizeProcessor.process_cycle() on its own (SpecSummarize)
    dt,           \* the date extractors on their own (SpecDates)
    zx,           \* extract_zip() on its own (SpecExtract)
    vf            \* the verify command on its own (SpecVerify)

vars == <<upstream, stateDisk, state, out, bak, tmp, pc, runs, cycles, dry_run,
          force, changes, idx, successful, failed, target, result, log, hist, last, faults, hc, dl,
          agg, dt, zx, vf>>

\* ------------------------------------------------------------------ bounds

MaxRetries == 4
MaxEntries == 2
MaxRecords == 3
MaxDateLen == 8
MaxAmount == 3
MaxDelay == 5
MaxVer == 2
MaxRuns == 2
MaxFaults == 1

\* ------------------------------------------------------------- Python values

None == <<>>
Some(v) == <<v>>

\* `if x:` on an optional string or integer: None, "" and 0 are falsy.
TruthyStr(o) == o # None /\ o[1] # ""
TruthyInt(o) == o # None /\ o[1] # 0

Range(s) == {s[i] : i \in DOMAIN s}

\* ---------------------------------------------------------- Dataset Registry

combine_datasets == <<"combine_x">>
summarize_datasets == <<"expenditures_by_category", "expenditures_by_state">>
DatasetNames == Range(combine_datasets) \cup Range(summarize_datasets)

fec_prefix(name) == IF name = "combine_x" THEN "weball" ELSE "oppexp"
start_year(name) == IF name = "combine_x" THEN 2020 ELSE 2022

CycleLists == {<<2022>>, <<2020, 2022>>}
Cycles == {2020, 2022}

\* get_fec_zip_url: {base_url}/{cycle}/{prefix}{yy}.zip, yy = str(cycle)[2:]
get_fec_zip_url(prefix, cycle) ==
    [dir |-> cycle, prefix |-> prefix, yy |-> cycle % 100]

\* The archives the registry can name: one per prefix and cycle >= start_year.
Sources ==
    {get_fec_zip_url(fec_prefix(n), c) :
        n \in {m \in DatasetNames : TRUE}, c \in {y \in Cycles : \E m \in DatasetNames : y >= start_year(m) /\ fec_prefix(m) = "weball"}}
    \cup {get_fec_zip_url("oppexp", c) : c \in {y \in Cycles : y >= start_year("expenditures_by_category")}}

\* ------------------------------------------------------------------ upstream

\* Response headers of the archive at `url` when its published version is v.
\* weball archives carry all three validators, oppexp only a content length.
Headers(url, v) ==
    IF url.prefix = "weball"
    THEN [etag |-> Some("e" \o ToString(v)), last_modified |-> Some("t" \o ToString(v)),
          content_length |-> Some(100 * v)]
    ELSE [etag |-> None, last_modified |-> None, content_length |-> Some(100 * v)]

\* ------------------------------------------------------------------ detect.py

CycleState(etag, last_modified, content_length, last_updated) ==
    [etag |-> etag, last_modified |-> last_modified,
     content_length |-> content_length, last_updated |-> last_updated]

\* A variant of has_changed that lets the first validator present on both
\* sides decide alone
has_changed_etag_only(old_state, new_state) ==
    IF old_state = None THEN <<TRUE, "new cycle">>
    ELSE IF TruthyStr(new_state.etag) /\ TruthyStr(old_state[1].etag)
         THEN IF new_state.etag # old_state[1].etag
              THEN <<TRUE, "etag changed">> ELSE <<FALSE, "no change">>
    ELSE IF TruthyStr(new_state.last_modified) /\ TruthyStr(old_state[1].last_modified)
         THEN IF new_state.last_modified # old_state[1].last_modified
              THEN <<TRUE, "last-modified changed">> ELSE <<FALSE, "no change">>
    ELSE IF TruthyInt(new_state.content_length) /\ TruthyInt(old_state[1].content_length)
            /\ new_state.content_length # old_state[1].content_length
         THEN <<TRUE, "content-length changed">>
    ELSE <<FALSE, "no change">>

\* has_changed(old_state, new_state) -> (changed, reason)
has_changed(old_state, new_state) ==
    IF old_state = None THEN <<TRUE, "new cycle">>
    ELSE IF TruthyStr(new_state.etag) /\ TruthyStr(old_state[1].etag)
            /\ new_state.etag # old_state[1].etag
         THEN <<TRUE, "etag changed">>
    ELSE IF TruthyStr(new_state.last_modified) /\ TruthyStr(old_state[1].last_modified)
            /\ new_state.last_modified # old_state[1].last_modified
         THEN <<TRUE, "last-modified changed">>
    ELSE IF TruthyInt(new_state.content_length) /\ TruthyInt(old_state[1].content_length)
            /\ new_state.content_length # old_state[1].content_length
         THEN <<TRUE, "content-length changed">>
    ELSE <<FALSE, "no change">>

\* check_url: the HEAD probe. `fails` is a transport error, timeout or error
\* status (httpx.HTTPError); a 404 and a failure both give None.
check_url(url, fails) ==
    IF fails THEN None
    ELSE IF upstream[url] = 0 THEN None
    ELSE LET h == Headers(url, upstream[url])
         IN  Some(CycleState(h.etag, h.last_modified,
                             IF TruthyInt(h.content_length) THEN h.content_length ELSE None,
                             None))

ChangeInfo(dataset, cycle, url, reason, new_etag, new_last_modified, new_content_length) ==
    [dataset |-> dataset, cycle |-> cycle, url |-> url, reason |-> reason,
     new_etag |-> new_etag, new_last_modified |-> new_last_modified,
     new_content_length |-> new_content_length]

\* ---------------------------------------------------- config/loader.py: state

EmptyDict == <<>>

\* UpdateState(): cycles = {}, last_check = None
NewUpdateState == [cycles |-> EmptyDict, last_check |-> None]

\* dict[key] = value
DictSet(d, k, v) == (k :> v) @@ d

\* UpdateState.get_cycle_state: keys are str(cycle)
get_cycle_state(st, dataset, cycle) ==
    IF dataset \notin DOMAIN st.cycles THEN None
    ELSE IF ToString(cycle) \in DOMAIN st.cycles[dataset]
         THEN Some(st.cycles[dataset][ToString(cycle)])
         ELSE None

\* A variant of update_cycle that files every cycle under one key
update_cycle_state_one_key(st, dataset, cycle, etag, last_modified, content_length, now) ==
    LET c1 == IF dataset \notin DOMAIN st.cycles
              THEN DictSet(st.cycles, dataset, EmptyDict) ELSE st.cycles
    IN  [st EXCEPT !.cycles =
            DictSet(c1, dataset,
                    DictSet(c1[dataset], "latest",
                            CycleState(etag, last_modified, content_length, Some(now))))]

\* UpdateState.update_cycle; `now` is datetime.now()
update_cycle_state(st, dataset, cycle, etag, last_modified, content_length, now) ==
    LET c1 == IF dataset \notin DOMAIN st.cycles
              THEN DictSet(st.cycles, dataset, EmptyDict) ELSE st.cycles
    IN  [st EXCEPT !.cycles =
            DictSet(c1, dataset,
                    DictSet(c1[dataset], ToString(cycle),
                            CycleState(etag, last_modified, content_length, Some(now))))]

\* The state file: absent, truncated by open(..., "w") and not yet dumped, or JSON.
NoStateFile == [kind |-> "absent", data |-> NewUpdateState]
PartialStateFile == [kind |-> "partial", data |-> NewUpdateState]

\* UpdateState.save: the JSON document json.dump writes
save(st) ==
    [kind |-> "json",
     data |-> [last_check |-> st.last_check,
               cycles |-> [d \in DOMAIN st.cycles |->
                            [c \in DOMAIN st.cycles[d] |->
                               [etag |-> st.cycles[d][c].etag,
                                last_modified |-> st.cycles[d][c].last_modified,
                                content_length |-> st.cycles[d][c].content_length,
                                last_updated |-> st.cycles[d][c].last_updated]]]]]

\* UpdateState.load of an absent or a complete state file
load(file) ==
    IF file.kind = "absent" THEN NewUpdateState
    ELSE [cycles |-> [d \in DOMAIN file.data.cycles |->
                        [c \in DOMAIN file.data.cycles[d] |->
                           CycleState(file.data.cycles[d][c].etag,
                                      file.data.cycles[d][c].last_modified,
                                      file.data.cycles[d][c].content_length,
                                      file.data.cycles[d][c].last_updated)]],
          last_check |-> file.data.last_check]

\* -------------------------------------------------- detect.py: detect_changes

\* for name in names: for cycle in cycles  (in iteration order)
AllPairs(names, cs) ==
    [k \in 1..(Len(names) * Len(cs)) |->
        <<names[((k - 1) \div Len(cs)) + 1], cs[((k - 1) % Len(cs)) + 1]>>]

\* `if cycle < dataset.start_year: continue`
InRange(pair) == pair[2] >= start_year(pair[1])

\* A variant that gives the aliased dataset probes of its own
NotAliased_all(name) == TRUE

\* `if name == "expenditures_by_state": continue`
NotAliased(name) == name # "expenditures_by_state"

\* The (dataset, cycle) pairs detect_changes probes, in probing order.
probes(cs) ==
    SelectSeq(AllPairs(combine_datasets, cs), InRange)
    \o SelectSeq(AllPairs(SelectSeq(summarize_datasets, NotAliased), cs), InRange)

\* A variant of the inner loop that reports a resource only when metadata of
\* it is stored
probe_one_known_only(st, pair, fails) ==
    LET url == get_fec_zip_url(fec_prefix(pair[1]), pair[2])
        new_state == check_url(url, fails)
        old_state == get_cycle_state(st, pair[1], pair[2])
    IN  IF new_state = None \/ old_state = None THEN <<>>
        ELSE LET r == has_changed(old_state, new_state[1])
             IN  IF r[1]
                 THEN <<ChangeInfo(pair[1], pair[2], url, r[2], new_state[1].etag,
                                   new_state[1].last_modified,
                                   new_state[1].content_length)>>
                 ELSE <<>>

\* One iteration of the inner loop: no or one ChangeInfo.
probe_one(st, pair, fails) ==
    LET url == get_fec_zip_url(fec_prefix(pair[1]), pair[2])
        new_state == check_url(url, fails)
    IN  IF new_state = None THEN <<>>
        ELSE LET r == has_changed(get_cycle_state(st, pair[1], pair[2]), new_state[1])
             IN  IF r[1]
                 THEN <<ChangeInfo(pair[1], pair[2], url, r[2], new_state[1].etag,
                                   new_state[1].last_modified,
                                   new_state[1].content_length)>>
                 ELSE <<>>

RECURSIVE detect_from(_, _, _, _)
detect_from(st, ps, failing, i) ==
    IF i > Len(ps) THEN <<>>
    ELSE probe_one(st, ps[i], i \in failing) \o detect_from(st, ps, failing, i + 1)

\* A variant in which a failing probe ends detection with nothing
detect_changes_abort(st, cs, failing) ==
    IF failing # {} THEN <<>> ELSE detect_from(st, probes(cs), failing, 1)

\* detect_changes(config, state, cycles); `failing` are the probes that fail.
detect_changes(st, cs, failing) == detect_from(st, probes(cs), failing, 1)

\* run(): the synthetic changes of --force
forced_one(pair) ==
    ChangeInfo(pair[1], pair[2], get_fec_zip_url(fec_prefix(pair[1]), pair[2]),
               "forced", None, None, None)

forced_changes(cs) == [i \in DOMAIN probes(cs) |-> forced_one(probes(cs)[i])]

\* ------------------------------------------------------- utils/dates.py

\* A string whose characters the code inspects is a sequence of characters.
DigitChars == <<"0", "1", "2", "3", "4", "5", "6", "7", "8", "9">>
IsDigit(c) == \E i \in DOMAIN DigitChars : DigitChars[i] = c
DigitVal(c) == (CHOOSE i \in DOMAIN DigitChars : DigitChars[i] = c) - 1
IsSpace(c) == c = " "

\* str.strip()
RECURSIVE lstrip(_)
lstrip(s) == IF s # <<>> /\ IsSpace(Head(s)) THEN lstrip(Tail(s)) ELSE s
RECURSIVE rstrip(_)
rstrip(s) == IF s # <<>> /\ IsSpace(s[Len(s)]) THEN rstrip(SubSeq(s, 1, Len(s) - 1)) ELSE s
strip(s) == rstrip(lstrip(s))

\* Digits of an int() literal: decimal digits, single underscores between them.
RECURSIVE DigitsValue(_, _)
DigitsValue(s, acc) ==
    IF s = <<>> THEN Some(acc)
    ELSE IF IsDigit(Head(s)) THEN DigitsValue(Tail(s), 10 * acc + DigitVal(Head(s)))
    ELSE IF Head(s) = "_" /\ Len(s) >= 2 /\ IsDigit(s[2]) THEN DigitsValue(Tail(s), acc)
    ELSE None

\* int(s): surrounding whitespace and one sign are accepted; ValueError is None.
PyInt(s) ==
    LET t == strip(s)
        neg == t # <<>> /\ Head(t) = "-"
        body == IF t # <<>> /\ Head(t) \in {"+", "-"} THEN Tail(t) ELSE t
        v == IF body = <<>> \/ ~IsDigit(Head(body)) THEN None ELSE DigitsValue(body, 0)
    IN  IF v = None THEN None ELSE IF neg THEN Some(0 - v[1]) ELSE v

\* str.split("/")
RECURSIVE split_slash(_, _)
split_slash(s, cur) ==
    IF s = <<>> THEN <<cur>>
    ELSE IF Head(s) = "/" THEN <<cur>> \o split_slash(Tail(s), <<>>)
    ELSE split_slash(Tail(s), Append(cur, Head(s)))

HasSlash(s) == \E i \in DOMAIN s : s[i] = "/"

\* A variant that takes the last four characters of a string of any length
extract_year_any_length(date_str) ==
    IF date_str = None \/ date_str[1] = <<>> THEN None
    ELSE LET s == strip(date_str[1])
             parts == split_slash(s, <<>>)
         IN  IF s = <<>> THEN None
             ELSE IF HasSlash(s) /\ Len(parts) = 3 /\ Len(parts[3]) = 4 THEN PyInt(parts[3])
             ELSE IF Len(s) >= 4 THEN PyInt(SubSeq(s, Len(s) - 3, Len(s)))
             ELSE None

\* extract_year_from_date(date_str); date_str is None or a string
extract_year_from_date(date_str) ==
    IF date_str = None \/ date_str[1] = <<>> THEN None
    ELSE LET s == strip(date_str[1])
             parts == split_slash(s, <<>>)
         IN  IF s = <<>> THEN None
             ELSE IF HasSlash(s) /\ Len(parts) = 3 /\ Len(parts[3]) = 4 THEN PyInt(parts[3])
             ELSE IF Len(s) = 8 THEN PyInt(SubSeq(s, 5, 8))
             ELSE IF Len(s) = 7 THEN PyInt(SubSeq(s, 4, 7))
             ELSE None

\* extract_month_from_date(date_str); date_str is None or a string
extract_month_from_date(date_str) ==
    IF date_str = None \/ date_str[1] = <<>> THEN None
    ELSE LET s == strip(date_str[1])
             parts == split_slash(s, <<>>)
         IN  IF s = <<>> THEN None
             ELSE IF HasSlash(s) /\ Len(parts) = 3 /\ Len(parts[1]) \in {1, 2}
                  THEN PyInt(parts[1])
             ELSE IF Len(s) = 8 THEN PyInt(SubSeq(s, 1, 2))
             ELSE IF Len(s) = 7 THEN PyInt(SubSeq(s, 1, 1))
             ELSE None

\* ------------------------------------------------- the published archives

\* Rows of the pipe-delimited weball file of a cycle at published version v.
CombineSource(cycle, v) == IF v = 1 THEN <<11, 12>> ELSE <<11, 13, 14>>

Txn(sub_id, memo_cd, amndt_ind, date, category, st, amount) ==
    [sub_id |-> sub_id, memo_cd |-> memo_cd, amndt_ind |-> amndt_ind, date |-> date,
     category |-> category, state |-> st, amount |-> amount]

D2021 == <<"0", "1", "1", "5", "2", "0", "2", "1">>
D2022 == <<"3", "0", "1", "2", "0", "2", "2">>

\* Records of the oppexp file of a cycle at published version v: originals, a
\* memo record, an amended record and a repeated sub_id.
SummarizeSource(cycle, v) ==
    IF v = 1
    THEN << Txn(1, None, Some("N"), Some(D2021), 1, 2, 10),
            Txn(2, Some("X"), Some("N"), Some(D2021), 1, 2, 100),
            Txn(3, None, Some("A"), Some(D2021), 1, 1, 1000),
            Txn(1, None, Some("N"), Some(D2021), 1, 2, 10),
            Txn(4, None, None, Some(D2022), 2, 1, 5) >>
    ELSE << Txn(1, None, Some("N"), Some(D2021), 1, 2, 10),
            Txn(5, None, Some("N"), Some(D2021), 1, 1, 7),
            Txn(4, None, None, Some(D2022), 2, 1, 6) >>

\* ------------------------------------------------ processors/combine.py

\* CombineProcessor.process_cycle: every row, election_cycle prepended
combine_process_cycle(rows, cycle) ==
    [i \in DOMAIN rows |-> [election_cycle |-> cycle, row |-> rows[i]]]

\* ---------------------------------------------- processors/summarize.py

\* A variant of the amendment filter that keeps every record
NotAmended_all(r) == TRUE

\* df.filter(memo.is_null() | memo != "X")
NotMemo(r) == r.memo_cd = None \/ r.memo_cd # Some("X")

\* df.filter(amndt.is_null() | amndt == "N")
NotAmended(r) == r.amndt_ind = None \/ r.amndt_ind = Some("N")

\* A variant that keeps every record of a sub_id
unique_none(rows) == rows

\* df.unique(subset=[sub_id], keep="first")
unique_first(rows) ==
    LET keep == {i \in DOMAIN rows : \A j \in 1..(i - 1) : rows[j].sub_id # rows[i].sub_id}
        RECURSIVE pick(_)
        pick(i) == IF i > Len(rows) THEN <<>>
                   ELSE (IF i \in keep THEN <<rows[i]>> ELSE <<>>) \o pick(i + 1)
    IN  pick(1)

\* A null of a sort or group key is 0: polars puts nulls first.
YearKey(r) == LET y == extract_year_from_date(r.date) IN IF y = None THEN 0 ELSE y[1]

\* The value of the dataset's dimension column (group_by beyond cycle and year).
Dimension(name, r) == IF name = "expenditures_by_state" THEN r.state ELSE r.category

\* Lexicographic order on <<election_cycle, transaction_year, dimension>>
KeyLess(a, b) ==
    \/ a[1] < b[1]
    \/ a[1] = b[1] /\ a[2] < b[2]
    \/ a[1] = b[1] /\ a[2] = b[2] /\ a[3] < b[3]

RECURSIVE SumAmount(_)
SumAmount(rows) == IF rows = <<>> THEN 0 ELSE Head(rows).amount + SumAmount(Tail(rows))

\* The members of a finite set of keys in increasing order.
RECURSIVE KeysInOrder(_)
KeysInOrder(ks) ==
    IF ks = {} THEN <<>>
    ELSE LET m == CHOOSE k \in ks : \A o \in ks : o = k \/ KeyLess(k, o)
         IN  <<m>> \o KeysInOrder(ks \ {m})

\* SummarizeProcessor.process_cycle: filter, deduplicate, derive year, group
summarize_process_cycle(name, rows, cycle) ==
    LET kept == unique_first(SelectSeq(SelectSeq(rows, NotMemo), NotAmended))
        KeyOf(r) == <<cycle, YearKey(r), Dimension(name, r)>>
        keys == KeysInOrder({KeyOf(kept[i]) : i \in DOMAIN kept})
        InGroup(k) == LET Is(r) == KeyOf(r) = k IN SelectSeq(kept, Is)
    IN  [i \in DOMAIN keys |->
            [election_cycle |-> keys[i][1], transaction_year |-> keys[i][2],
             dimension |-> keys[i][3],
             total_amount |-> SumAmount(InGroup(keys[i])),
             transaction_count |-> Len(InGroup(keys[i]))]]

\* --------------------------------------------- processors: the output file

\* A file is absent, complete, or cut short by an interrupted write (some strict
\* prefix of what was being written; nothing reads such a file).
NoFile == [exists |-> FALSE, complete |-> FALSE, rows |-> <<>>]
File(rows) == [exists |-> TRUE, complete |-> TRUE, rows |-> rows]
Truncated == [exists |-> TRUE, complete |-> FALSE, rows |-> <<>>]

IsCombine(name) == name \in Range(combine_datasets)

\* process_cycle of the dataset's processor on the input file extracted from
\* the archive of version v
process_cycle(name, cycle, v) ==
    IF IsCombine(name)
    THEN combine_process_cycle(CombineSource(cycle, v), cycle)
    ELSE summarize_process_cycle(name, SummarizeSource(cycle, v), cycle)

\* read_existing: `if not output_path.exists(): return None`
read_existing(name) == IF ~out[name].exists THEN None ELSE Some(out[name].rows)

\* A variant of remove_cycle that keeps no row
remove_cycle_all(df, cycle) == <<>>

\* A variant of remove_cycle that keeps every row
remove_cycle_none(df, cycle) == df

\* remove_cycle: df.filter(election_cycle != cycle)
remove_cycle(df, cycle) ==
    LET Other(r) == r.election_cycle # cycle IN SelectSeq(df, Other)

\* append_cycle: pl.concat([existing, new_data])
append_cycle(existing, new_data) ==
    IF existing = None THEN new_data ELSE existing[1] \o new_data

\* update_cycle up to the call of write_output
updated_frame(name, cycle, v) ==
    LET existing == read_existing(name)
    IN  append_cycle(IF existing # None THEN Some(remove_cycle(existing[1], cycle))
                     ELSE existing,
                     process_cycle(name, cycle, v))

\* write_output: df.sort("election_cycle") for combine, df.sort(group_by) for
\* summarize (a stable sort on the key).
SortKey(name, r) ==
    IF IsCombine(name) THEN <<r.election_cycle, 0, 0>>
    ELSE <<r.election_cycle, r.transaction_year, r.dimension>>

RECURSIVE insert_sorted(_, _, _)
insert_sorted(name, s, r) ==
    IF s = <<>> THEN <<r>>
    ELSE IF KeyLess(SortKey(name, r), SortKey(name, Head(s))) THEN <<r>> \o s
    ELSE <<Head(s)>> \o insert_sorted(name, Tail(s), r)

RECURSIVE sort_frame(_, _)
sort_frame(name, df) ==
    IF df = <<>> THEN <<>>
    ELSE insert_sorted(name, sort_frame(name, SubSeq(df, 1, Len(df) - 1)), df[Len(df)])

\* ------------------------------------------------------------- integrate.py

\* A variant that updates the UpdateState whatever process_change returned
state_after_always(st, change, success, dry, now) ==
    IF ~dry
    THEN update_cycle_state(st, change.dataset, change.cycle, change.new_etag,
                            change.new_last_modified, change.new_content_length, now)
    ELSE st

\* integrate_changes, lines 118-130: the UpdateState after a change was processed
state_after(st, change, success, dry, now) ==
    IF success /\ ~dry
    THEN update_cycle_state(st, change.dataset, change.cycle, change.new_etag,
                            change.new_last_modified, change.new_content_length, now)
    ELSE st

\* A variant that saves the UpdateState after every change
state_file_flushed(file, st) == save(st)

\* integrate_changes: the state file is not touched while changes are processed
state_file_after_change(file, st) == file

\* A variant that leaves the loop at the first failure
next_index_break(i, success, n) == IF success THEN i + 1 ELSE n + 1

\* integrate_changes: `for change in changes` goes on after a failure
next_index(i, success, n) == i + 1

\* A variant that saves at the end of every run that is not a dry run
should_save_always(dry, succ) == ~dry

\* A variant that saves at the end of a dry run too
should_save_dry(dry, succ) == succ > 0

\* run(), step 4: `if not dry_run and successful > 0`
should_save(dry, succ) == ~dry /\ succ > 0

\* A variant of detection that stores the metadata of what it reports
state_after_detect_stored(st, chs) ==
    IF chs = <<>> THEN st
    ELSE update_cycle_state(st, chs[1].dataset, chs[1].cycle, chs[1].new_etag,
                            chs[1].new_last_modified, chs[1].new_content_length, 0)

\* detect_changes only reads the UpdateState (state.get_cycle_state)
state_after_detect(st, chs) == st

\* ------------------------------------------------------------------- state

NoHistory ==
    [diskAtStart |-> NoStateFile, stateAtInteg |-> NewUpdateState, saves |-> 0,
     ended |-> "none", crashedAt |-> "", dirty |-> FALSE, exit |-> 0, failing |-> {},
     before |-> NoFile, fetched |-> <<>>, outBefore |-> [d \in DatasetNames |-> NoFile]]

\* Everything but the arguments of a has_changed call
InitProgram ==
    /\ upstream = [u \in Sources |-> IF u.dir = 2022 /\ u.prefix = "weball" THEN 0 ELSE 1]
    /\ stateDisk = NoStateFile
    /\ state = NewUpdateState
    /\ out = [d \in DatasetNames |-> NoFile]
    /\ bak = [d \in DatasetNames |-> NoFile]
    /\ tmp = [d \in DatasetNames |-> NoFile]
    /\ pc = "idle"
    /\ runs = 0
    /\ cycles = <<>>
    /\ dry_run = FALSE
    /\ force = FALSE
    /\ changes = <<>>
    /\ idx = 0
    /\ successful = 0
    /\ failed = 0
    /\ target = ""
    /\ result = <<>>
    /\ log = <<>>
    /\ hist = NoHistory
    /\ last = [d \in DatasetNames |-> None]
    /\ faults = 0

\* No function is applied on its own
NoHasChanged ==
    [old |-> None, new |-> CycleState(None, None, None, None),
     res |-> <<FALSE, "">>, done |-> FALSE]
NoDownload ==
    [max_retries |-> 0, retry_delay |-> 0, attempt |-> 0, tries |-> 0, fails |-> 0,
     slept |-> <<>>, ret |-> None, raised |-> FALSE, pc |-> "done"]
NoSummarize == [name |-> "", cycle |-> 0, rows |-> <<>>, res |-> <<>>, done |-> TRUE]
NoDates == [date_str |-> None, year |-> None, month |-> None, done |-> TRUE]
NoExtract == [archives |-> <<>>, next |-> 1, work_dir |-> <<>>, extracted |-> <<>>, done |-> TRUE]
NoVerify == [data_dir |-> <<>>, results |-> <<>>, exit |-> 0, done |-> TRUE]

Init ==
    /\ InitProgram
    /\ hc = NoHasChanged
    /\ dl = NoDownload
    /\ agg = NoSummarize
    /\ dt = NoDates /\ zx = NoExtract /\ vf = NoVerify

files == <<out, bak, tmp>>
calls == <<hc, dl, agg, dt, zx, vf>>
args == <<cycles, dry_run, force>>
counters == <<idx, successful, failed>>
frame == <<target, result>>

\* ---------------------------------------------------------------- upstream

\* No process is running: none was started yet, the last one returned, or it
\* was killed.
Stopped == {"idle", "exited", "crashed"}

\* Nothing of a stopped process remains in memory.
NoProcess ==
    /\ state' = NewUpdateState
    /\ cycles' = <<>> /\ dry_run' = FALSE /\ force' = FALSE
    /\ changes' = <<>>
    /\ idx' = 0 /\ successful' = 0 /\ failed' = 0
    /\ target' = "" /\ result' = <<>>
    /\ log' = <<>>
    /\ hist' = NoHistory

\* The publisher replaces an archive (or publishes it for the first time).
Publish(u) ==
    /\ pc \in Stopped
    /\ upstream[u] < MaxVer
    /\ upstream' = [upstream EXCEPT ![u] = @ + 1]
    /\ pc' = "idle"
    /\ NoProcess
    /\ UNCHANGED <<stateDisk, files, runs, last, faults, calls>>

\* ---------------------------------------------------------- cli.py: cli, run

\* cli(): UpdateState.load; run(): the options
StartRun(cs, dry, frc) ==
    /\ pc \in Stopped
    /\ runs < MaxRuns
    /\ stateDisk.kind # "partial"
    /\ runs' = runs + 1
    /\ state' = load(stateDisk)
    /\ cycles' = cs
    /\ dry_run' = dry
    /\ force' = frc
    /\ changes' = <<>>
    /\ idx' = 0
    /\ successful' = 0
    /\ failed' = 0
    /\ target' = ""
    /\ result' = <<>>
    /\ log' = <<>>
    /\ hist' = [NoHistory EXCEPT !.diskAtStart = stateDisk, !.ended = "running"]
    /\ pc' = "detect"
    /\ UNCHANGED <<upstream, stateDisk, files, last, faults, calls>>

\* cli(): json.load raises on a truncated state file and the process ends
LoadFails ==
    /\ pc \in Stopped
    /\ runs < MaxRuns
    /\ stateDisk.kind = "partial"
    /\ runs' = runs + 1
    /\ NoProcess
    /\ pc' = "exited"
    /\ UNCHANGED <<upstream, stateDisk, files, last, faults, calls>>

\* The probes whose archive exists upstream (a failed probe of a missing archive
\* is answered like its 404: None).
Answering(cs) ==
    {i \in DOMAIN probes(cs) :
        upstream[get_fec_zip_url(fec_prefix(probes(cs)[i][1]), probes(cs)[i][2])] > 0}

\* run(), step 1: detect_changes; any subset of the probes may fail
Detect ==
    /\ pc = "detect"
    /\ \E failing \in SUBSET Answering(cycles) :
          /\ faults + Cardinality(failing) <= MaxFaults
          /\ faults' = faults + Cardinality(failing)
          /\ changes' = detect_changes(state, cycles, failing)
          /\ hist' = [hist EXCEPT !.failing = failing]
    /\ state' = state_after_detect(state, changes')
    /\ pc' = "decide"
    /\ UNCHANGED <<upstream, stateDisk, files, runs, args, counters, frame,
                   log, last, calls>>

\* run(): `if not changes and not force: return`
NoUpdates ==
    /\ pc = "decide"
    /\ changes = <<>> /\ ~force
    /\ pc' = "exited"
    /\ hist' = [hist EXCEPT !.ended = "returned", !.exit = 0]
    /\ UNCHANGED <<upstream, stateDisk, state, files, runs, args, changes, counters,
                   frame, log, last, faults, calls>>

\* run(): `if force and not changes:` the synthetic changes; then
\* integrate_changes is entered
ForceAll ==
    /\ pc = "decide"
    /\ changes = <<>> /\ force
    /\ changes' = forced_changes(cycles)
    /\ idx' = 1 /\ successful' = 0 /\ failed' = 0
    /\ pc' = IF changes' = <<>> THEN "after" ELSE "process"
    /\ hist' = [hist EXCEPT !.stateAtInteg = state]
    /\ UNCHANGED <<upstream, stateDisk, state, files, runs, args, frame, log, last, faults, calls>>

\* run(): changes were detected; integrate_changes is entered
Integrate ==
    /\ pc = "decide"
    /\ changes # <<>>
    /\ idx' = 1 /\ successful' = 0 /\ failed' = 0
    /\ pc' = "process"
    /\ hist' = [hist EXCEPT !.stateAtInteg = state]
    /\ UNCHANGED <<upstream, stateDisk, state, files, runs, args, changes, frame, log,
                   last, faults, calls>>

\* --------------------------------------- integrate.py: integrate_changes

\* The end of one iteration of `for change in changes`: the counters, the
\* UpdateState, and the next change.
RecordDone(outcome) ==
    LET change == changes[idx]
        success == outcome \in {"ok", "dry"}
        nxt == next_index(idx, success, Len(changes))
    IN  /\ log' = Append(log, [change |-> change, outcome |-> outcome,
                               ver |-> upstream[change.url]])
        /\ successful' = IF success THEN successful + 1 ELSE successful
        /\ failed' = IF success THEN failed ELSE failed + 1
        /\ state' = state_after(state, change, success, dry_run, runs)
        /\ stateDisk' = state_file_after_change(stateDisk, state')
        /\ idx' = nxt
        /\ pc' = IF nxt > Len(changes) THEN "after" ELSE "process"
        /\ target' = ""
        /\ result' = <<>>

\* process_change with --dry-run: download_cycle returns [], then `return True`
ProcessDry ==
    /\ pc = "process"
    /\ dry_run
    /\ RecordDone("dry")
    /\ UNCHANGED <<upstream, files, runs, args, changes, hist, last, faults, calls>>

\* process_change: download_cycle and find_input_file succeed; the processor of
\* the change's dataset is chosen
ProcessChange ==
    /\ pc = "process"
    /\ ~dry_run
    /\ upstream[changes[idx].url] > 0
    /\ hist' = [hist EXCEPT !.fetched = Append(@, changes[idx].url), !.outBefore = out]
    /\ target' = changes[idx].dataset
    /\ pc' = "update"
    /\ UNCHANGED <<upstream, stateDisk, state, files, runs, args, changes, counters,
                   result, log, last, faults, calls>>

\* process_change returns False: the download is exhausted (always so for a 404)
\* or the expected extracted file is not found
ProcessFails ==
    /\ pc = "process"
    /\ ~dry_run
    /\ IF upstream[changes[idx].url] > 0
       THEN faults < MaxFaults /\ faults' = faults + 1
       ELSE UNCHANGED faults
    /\ hist' = [hist EXCEPT !.fetched = Append(@, changes[idx].url), !.outBefore = out]
    /\ RecordDone("false")
    /\ UNCHANGED <<upstream, files, runs, args, changes, last, calls>>

\* process_change raises before any processor ran (extract_zip on a bad archive)
ProcessRaises ==
    /\ faults < MaxFaults
    /\ faults' = faults + 1
    /\ pc = "process"
    /\ ~dry_run
    /\ upstream[changes[idx].url] > 0
    /\ hist' = [hist EXCEPT !.fetched = Append(@, changes[idx].url), !.outBefore = out]
    /\ RecordDone("raised")
    /\ UNCHANGED <<upstream, files, runs, args, changes, last, calls>>

\* ------------------------------------------- processors: update_cycle

\* update_cycle: process_cycle, read_existing, remove_cycle, append_cycle; then
\* write_output: `if backup and output_path.exists(): output_path.rename(backup_path)`
UpdateBegin ==
    /\ pc = "update"
    /\ result' = updated_frame(target, changes[idx].cycle, upstream[changes[idx].url])
    /\ hist' = [hist EXCEPT !.before = out[target]]
    /\ IF out[target].exists
       THEN /\ bak' = [bak EXCEPT ![target] = out[target]]
            /\ out' = [out EXCEPT ![target] = NoFile]
       ELSE UNCHANGED <<out, bak>>
    /\ pc' = "write"
    /\ UNCHANGED <<upstream, stateDisk, state, tmp, runs, args, changes, counters,
                   target, log, last, faults, calls>>

\* update_cycle raises while reading or transforming (polars error)
UpdateRaises ==
    /\ faults < MaxFaults
    /\ faults' = faults + 1
    /\ pc = "update"
    /\ RecordDone("raised")
    /\ UNCHANGED <<upstream, files, runs, args, changes, hist, last, calls>>

\* write_output: df.sort(...); df.write_csv(temp_path)
WriteTemp ==
    /\ pc = "write"
    /\ tmp' = [tmp EXCEPT ![target] = File(sort_frame(target, result))]
    /\ pc' = "rename"
    /\ UNCHANGED <<upstream, stateDisk, state, out, bak, runs, args, changes, counters,
                   frame, log, hist, last, faults, calls>>

\* write_output: df.write_csv raises part-way (disk full); the change fails
WriteRaises ==
    /\ faults < MaxFaults
    /\ faults' = faults + 1
    /\ pc = "write"
    /\ tmp' = [tmp EXCEPT ![target] = Truncated]
    /\ RecordDone("raised")
    /\ UNCHANGED <<upstream, out, bak, runs, args, changes, hist, last, calls>>

\* What the history keeps of a completed update_cycle: the cycle, the version
\* of the input, the file before and after, whether the update completed
\* just before on this file was of the same cycle and input, the version last
\* integrated for each cycle, and whether every completed update of this file
\* started from what the one before had left (from no file, for the first).
Completed(name, change, rows) ==
    Some([cycle |-> change.cycle, ver |-> upstream[change.url],
          before |-> hist.before, after |-> File(rows),
          twice |-> /\ last[name] # None
                    /\ last[name][1].cycle = change.cycle
                    /\ last[name][1].ver = upstream[change.url]
                    /\ hist.before = last[name][1].after,
          latest |-> (change.cycle :> upstream[change.url])
                       @@ (IF last[name] # None THEN last[name][1].latest ELSE <<>>),
          chain |-> IF last[name] = None THEN ~hist.before.exists
                    ELSE last[name][1].chain /\ hist.before = last[name][1].after,
          cut |-> None,
          prior |-> IF last[name] # None /\ last[name][1].cut = Some(change.cycle)
                    THEN Some(last[name][1].after) ELSE None])

\* write_output: temp_path.rename(output_path)
RenameFiles ==
    /\ out' = [out EXCEPT ![target] = tmp[target]]
    /\ tmp' = [tmp EXCEPT ![target] = NoFile]
    /\ last' = [last EXCEPT ![target] = Completed(target, changes[idx], tmp[target].rows)]
    /\ UNCHANGED bak

\* A variant without the special handling
HasAlias_never(change, name) == FALSE

\* process_change: expenditures_by_state is updated from the same input file
HasAlias(change, name) ==
    /\ change.dataset = "expenditures_by_category"
    /\ name = "expenditures_by_category"
    /\ "expenditures_by_state" \in Range(summarize_datasets)

\* The rename of the first of two updates: the aliased dataset comes next
RenameThenAlias ==
    /\ pc = "rename"
    /\ HasAlias(changes[idx], target)
    /\ RenameFiles
    /\ target' = "expenditures_by_state"
    /\ pc' = "update"
    /\ UNCHANGED <<upstream, stateDisk, state, runs, args, changes, counters, result,
                   log, hist, faults, calls>>

\* The rename of the last update of a change: process_change returns True
RenameDone ==
    /\ pc = "rename"
    /\ ~HasAlias(changes[idx], target)
    /\ RenameFiles
    /\ RecordDone("ok")
    /\ UNCHANGED <<upstream, runs, args, changes, hist, faults, calls>>

\* ------------------------------------------------------- run(): step 4

\* state.last_check = now; state.save: open(state_file, "w") truncates
SaveOpen ==
    /\ pc = "after"
    /\ should_save(dry_run, successful)
    /\ state' = [state EXCEPT !.last_check = Some(runs)]
    /\ stateDisk' = PartialStateFile
    /\ pc' = "save"
    /\ UNCHANGED <<upstream, files, runs, args, changes, counters, frame, log, hist,
                   last, faults, calls>>

\* A variant that never raises SystemExit
exit_code_zero(n_failed) == 0

\* run(): `if failed > 0: raise SystemExit(1)`
exit_code(n_failed) == IF n_failed > 0 THEN 1 ELSE 0

\* The exit code of a run that went through integrate_changes
ExitCode == exit_code(failed)

\* state.save: json.dump; then the summary and the exit code
SaveDump ==
    /\ pc = "save"
    /\ stateDisk' = save(state)
    /\ hist' = [hist EXCEPT !.saves = @ + 1, !.ended = "returned", !.exit = ExitCode]
    /\ pc' = "exited"
    /\ UNCHANGED <<upstream, state, files, runs, args, changes, counters, frame, log,
                   last, faults, calls>>

\* run(): nothing to save; the summary and the exit code
SkipSave ==
    /\ pc = "after"
    /\ ~should_save(dry_run, successful)
    /\ hist' = [hist EXCEPT !.ended = "returned", !.exit = ExitCode]
    /\ pc' = "exited"
    /\ UNCHANGED <<upstream, stateDisk, state, files, runs, args, changes, counters,
                   frame, log, last, faults, calls>>

\* ------------------------------------------------------------------ crash

\* The history of the output files when the process is killed: an update_cycle
\* that was under way is noted, with its cycle, at the last completed update of
\* its file.
last_after_kill ==
    IF pc \in {"update", "write", "rename"} /\ last[target] # None
    THEN [last EXCEPT ![target] = Some([@[1] EXCEPT !.cut = Some(changes[idx].cycle)])]
    ELSE last

\* What a killed process leaves: the disk as it is, no memory.
Dies ==
    /\ pc' = "crashed"
    /\ hist' = [NoHistory EXCEPT !.diskAtStart = hist.diskAtStart,
                                 !.ended = "crashed", !.crashedAt = pc,
                                 !.dirty = (state # load(hist.diskAtStart))]
    /\ state' = NewUpdateState
    /\ cycles' = <<>> /\ dry_run' = FALSE /\ force' = FALSE
    /\ changes' = <<>>
    /\ idx' = 0 /\ successful' = 0 /\ failed' = 0
    /\ target' = "" /\ result' = <<>>
    /\ log' = <<>>
    /\ last' = last_after_kill
    /\ faults < MaxFaults
    /\ faults' = faults + 1
    /\ UNCHANGED <<upstream, runs, calls>>

\* The process is killed between two steps
Crash ==
    /\ pc \notin Stopped
    /\ Dies
    /\ UNCHANGED <<stateDisk, files>>

\* The process is killed while write_csv is writing the temporary file
CrashInWrite ==
    /\ pc = "write"
    /\ tmp' = [tmp EXCEPT ![target] = Truncated]
    /\ Dies
    /\ UNCHANGED <<stateDisk, out, bak>>

Next ==
    \/ \E u \in Sources : Publish(u)
    \/ \E cs \in CycleLists, dry \in BOOLEAN, frc \in BOOLEAN : StartRun(cs, dry, frc)
    \/ LoadFails
    \/ Detect
    \/ NoUpdates
    \/ ForceAll
    \/ Integrate
    \/ ProcessDry
    \/ ProcessChange
    \/ ProcessFails
    \/ ProcessRaises
    \/ UpdateBegin
    \/ UpdateRaises
    \/ WriteTemp
    \/ WriteRaises
    \/ RenameThenAlias
    \/ RenameDone
    \/ SaveOpen
    \/ SaveDump
    \/ SkipSave
    \/ Crash
    \/ CrashInWrite

Spec == Init /\ [][Next]_vars

\* ------------------------------------------------ has_changed on its own

EtagValues == {None, Some(""), Some("e1"), Some("e2")}
LastModifiedValues == {None, Some(""), Some("t1"), Some("t2")}
ContentLengthValues == {None, Some(0), Some(100), Some(200)}

Validators ==
    {CycleState(e, m, c, None) :
        e \in EtagValues, m \in LastModifiedValues, c \in ContentLengthValues}

InitDetect ==
    /\ InitProgram
    /\ hc \in {[old |-> o, new |-> n, res |-> <<FALSE, "">>, done |-> FALSE] :
                  o \in {None} \cup {Some(v) : v \in Validators}, n \in Validators}
    /\ dl = NoDownload
    /\ agg = NoSummarize
    /\ dt = NoDates /\ zx = NoExtract /\ vf = NoVerify

\* has_changed(old_state, new_state) is called
HasChanged ==
    /\ ~hc.done
    /\ hc' = [hc EXCEPT !.res = has_changed(hc.old, hc.new), !.done = TRUE]
    /\ UNCHANGED <<upstream, stateDisk, state, files, pc, runs, args, changes, counters,
                   frame, log, hist, last, faults, dl, agg, dt, zx, vf>>

NextDetect == HasChanged

SpecDetect == InitDetect /\ [][NextDetect]_vars

\* ------------------------------------------------------------- properties

\* The rows of a file that belong to a cycle
CycleRows(rows, cycle) ==
    LET Same(r) == r.election_cycle = cycle IN SelectSeq(rows, Same)

\* A sequence of rows as a multiset
BagOf(rows) ==
    [r \in Range(rows) |-> Cardinality({i \in DOMAIN rows : rows[i] = r})]

\* integrate_changes is running or has returned, and state.save was not reached
Integrating == {"process", "update", "write", "rename", "after"}

\* The ChangeInfo records of i with the given outcomes
Attempts(outcomes) == {i \in DOMAIN log : log[i].outcome \in outcomes}

\* C1: when update_cycle(P) has completed on an output file that already had
\* rows of cycle P, the rows of P in the file are exactly the rows process_cycle
\* computes from the input of that update: the old rows of P are gone and no
\* row of P is there twice.
C1_ReplaceNotDuplicate ==
    \A d \in DatasetNames :
        (/\ last[d] # None
         /\ out[d].exists
         /\ CycleRows(last[d][1].before.rows, last[d][1].cycle) # <<>>)
        => /\ out[d] = last[d][1].after
           /\ BagOf(CycleRows(out[d].rows, last[d][1].cycle))
                = BagOf(process_cycle(d, last[d][1].cycle, last[d][1].ver))

\* C1 happens: a cycle that had rows was replaced by rows of another input
C1_Witness ==
    \E d \in DatasetNames :
        /\ last[d] # None
        /\ out[d].exists
        /\ CycleRows(last[d][1].before.rows, last[d][1].cycle) # <<>>
        /\ BagOf(CycleRows(last[d][1].before.rows, last[d][1].cycle))
             # BagOf(CycleRows(out[d].rows, last[d][1].cycle))

\* C2: while write_output has not done its final rename, the file at the
\* output path is there with the content it had before.
C2_OutputKeptUntilRename ==
    (pc \in {"write", "rename"} /\ hist.before.exists) => out[target] = hist.before

\* C3: when integrate_changes returns, the entries of the UpdateState that
\* differ from those at its start are those of the (dataset, cycle) of a
\* ChangeInfo whose processing succeeded in a run that is not a dry run, and
\* last_check is as it was.
C3_StateOnlyForSucceeded ==
    pc = "after" =>
        /\ state.last_check = hist.stateAtInteg.last_check
        /\ \A d \in DOMAIN state.cycles : \A k \in DOMAIN state.cycles[d] :
              (\/ d \notin DOMAIN hist.stateAtInteg.cycles
               \/ k \notin DOMAIN hist.stateAtInteg.cycles[d]
               \/ state.cycles[d][k] # hist.stateAtInteg.cycles[d][k])
              => \E i \in Attempts({"ok"}) :
                    /\ ~dry_run
                    /\ log[i].change.dataset = d
                    /\ ToString(log[i].change.cycle) = k
        /\ \A d \in DOMAIN hist.stateAtInteg.cycles :
              /\ d \in DOMAIN state.cycles
              /\ DOMAIN hist.stateAtInteg.cycles[d] \subseteq DOMAIN state.cycles[d]

\* C3 happens: a change failed, another succeeded, and the state has changed
C3_Witness ==
    /\ pc = "after"
    /\ Attempts({"false", "raised"}) # {}
    /\ Attempts({"ok"}) # {}
    /\ state # hist.stateAtInteg

\* C4: integrate_changes attempts every ChangeInfo of the batch once and in
\* order, whatever the outcome of the ones before, and the two counts it
\* returns add up to the size of the batch.
C4_FailureIsolation ==
    /\ pc \in Integrating =>
          /\ Len(log) = successful + failed
          /\ Len(log) <= Len(changes)
          /\ \A i \in DOMAIN log : log[i].change = changes[i]
          /\ successful = Cardinality(Attempts({"ok", "dry"}))
          /\ failed = Cardinality(Attempts({"false", "raised"}))
    /\ pc = "after" =>
          /\ Len(log) = Len(changes)
          /\ successful + failed = Len(changes)

\* C4 happens: a change raised, one returned False, and a later one succeeded
C4_Witness ==
    /\ pc = "after"
    /\ \E i, j, k \in DOMAIN log :
          /\ i < k /\ j < k
          /\ log[i].outcome = "raised"
          /\ log[j].outcome = "false"
          /\ log[k].outcome = "ok"

\* C5 as the specification has it: every run that is not a dry run and
\* returns has saved the state exactly once.
C5_SavedOnceEveryRun ==
    (pc = "exited" /\ hist.ended = "returned" /\ ~dry_run) => hist.saves = 1

\* C5: a run saves the state at most once, and only after every ChangeInfo of
\* the batch was attempted; a run that returns has saved it exactly once when
\* it is not a dry run and a ChangeInfo succeeded, and not at all otherwise.
C5_SavedOnceIfSucceeded ==
    /\ hist.saves <= 1
    /\ (pc = "exited" /\ hist.ended = "returned") =>
          hist.saves = IF ~dry_run /\ successful > 0 THEN 1 ELSE 0
    /\ (pc \in {"save", "exited"} /\ hist.ended # "none" /\ hist.saves = 1) =>
          /\ Len(log) = Len(changes)
          /\ stateDisk = save(state)
    /\ pc = "save" => Len(log) = Len(changes)

\* C5 happens: a run with a failed and a succeeded change has saved once
C5_Witness ==
    /\ pc = "exited" /\ hist.ended = "returned" /\ ~dry_run
    /\ Attempts({"false", "raised"}) # {}
    /\ Attempts({"ok"}) # {}
    /\ hist.saves = 1

\* C6: during detection and integration the state file is as it was when the
\* process started, and it is so after a crash anywhere before state.save.
C6_StateFileUntouched ==
    /\ pc \in {"detect", "decide"} \cup Integrating => stateDisk = hist.diskAtStart
    /\ (pc = "crashed" /\ hist.crashedAt # "save") => stateDisk = hist.diskAtStart

\* C6 happens: the process died in integrate_changes after the UpdateState in
\* memory had been updated
C6_Witness ==
    /\ pc = "crashed"
    /\ hist.crashedAt \in Integrating
    /\ hist.dirty

\* C7: integrating the same ChangeInfo again, with the same input and the
\* output file as the first integration left it, leaves the same rows in the
\* file; and once a ChangeInfo has succeeded, probing its resource again with
\* the updated state gives no ChangeInfo.
C7_Idempotent ==
    /\ \A d \in DatasetNames :
          (last[d] # None /\ last[d][1].twice /\ out[d].exists) =>
             /\ BagOf(out[d].rows) = BagOf(last[d][1].before.rows)
             /\ BagOf(CycleRows(out[d].rows, last[d][1].cycle))
                  = BagOf(CycleRows(last[d][1].before.rows, last[d][1].cycle))
    /\ (pc \in Integrating /\ ~dry_run) =>
          \A i \in Attempts({"ok"}) :
             probe_one(state, <<log[i].change.dataset, log[i].change.cycle>>, FALSE) = <<>>
    /\ (pc = "exited" /\ hist.saves = 1) =>
          \A i \in Attempts({"ok"}) :
             probe_one(load(stateDisk), <<log[i].change.dataset, log[i].change.cycle>>,
                       FALSE) = <<>>

\* C7 happens: a ChangeInfo was integrated twice and the state was saved
C7_Witness ==
    /\ pc = "exited" /\ hist.saves = 1
    /\ \E i \in Attempts({"ok"}) :
          /\ last[log[i].change.dataset] # None
          /\ last[log[i].change.dataset][1].twice
          /\ last[log[i].change.dataset][1].cycle = log[i].change.cycle
          /\ out[log[i].change.dataset].exists
          /\ log[i].change.reason # "forced"

\* C8: when the stored and the probed metadata both have an entity tag and
\* the tags are equal, has_changed says unchanged whatever last-modified and
\* content-length are.
C8_EqualEtagsUnchanged ==
    (/\ hc.done
     /\ hc.old # None
     /\ TruthyStr(hc.old[1].etag)
     /\ hc.old[1].etag = hc.new.etag)
    => hc.res[1] = FALSE

\* A validator is on both sides and differs
DiffersStr(old, new) == TruthyStr(old) /\ TruthyStr(new) /\ old # new
DiffersInt(old, new) == TruthyInt(old) /\ TruthyInt(new) /\ old # new

\* C9: has_changed compares the entity tag, then last-modified, then
\* content-length; the first of them that is on both sides and differs gives
\* the reason, and when none does the resource is unchanged.
C9_ValidatorPriority ==
    (hc.done /\ hc.old # None) =>
        LET o == hc.old[1]
            n == hc.new
            e == DiffersStr(o.etag, n.etag)
            m == DiffersStr(o.last_modified, n.last_modified)
            c == DiffersInt(o.content_length, n.content_length)
        IN  /\ e => hc.res = <<TRUE, "etag changed">>
            /\ (~e /\ m) => hc.res = <<TRUE, "last-modified changed">>
            /\ (~e /\ ~m /\ c) => hc.res = <<TRUE, "content-length changed">>
            /\ (~e /\ ~m /\ ~c) => hc.res[1] = FALSE

\* C9 happens: both sides hold a content-length only, the two differ, and
\* has_changed has given `content-length changed`
C9_Witness ==
    /\ hc.done /\ hc.old # None
    /\ hc.old[1].etag = None /\ hc.new.etag = None
    /\ hc.old[1].last_modified = None /\ hc.new.last_modified = None
    /\ DiffersInt(hc.old[1].content_length, hc.new.content_length)
    /\ hc.res = <<TRUE, "content-length changed">>

\* The resource of the i-th probe of detect_changes
ProbeUrl(i) == get_fec_zip_url(fec_prefix(probes(cycles)[i][1]), probes(cycles)[i][2])

\* detect_changes has returned a ChangeInfo with this reason for the i-th
\* probe, carrying the metadata of the resource
Reported(i, reason) ==
    \E k \in DOMAIN changes :
        /\ changes[k].dataset = probes(cycles)[i][1]
        /\ changes[k].cycle = probes(cycles)[i][2]
        /\ changes[k].url = ProbeUrl(i)
        /\ changes[k].reason = reason
        /\ changes[k].new_etag = Headers(ProbeUrl(i), upstream[ProbeUrl(i)]).etag

\* The i-th probe is of a pair without stored metadata whose resource exists
NewResource(i) ==
    /\ get_cycle_state(state, probes(cycles)[i][1], probes(cycles)[i][2]) = None
    /\ upstream[ProbeUrl(i)] > 0

\* C10 as the specification has it: a probed pair without stored metadata
\* whose resource exists gets a ChangeInfo with the reason `new period`.
C10_NewPeriodReason ==
    pc = "decide" =>
        \A i \in DOMAIN probes(cycles) :
            (NewResource(i) /\ i \notin hist.failing) => Reported(i, "new period")

\* C10: a pair that detect_changes probes, without stored metadata and whose
\* probe answers with the metadata of the resource, gets a ChangeInfo with the
\* reason `new cycle`; when the probe fails it gets none.
C10_NewCycleReason ==
    pc = "decide" =>
        \A i \in DOMAIN probes(cycles) :
            NewResource(i) =>
                IF i \in hist.failing
                THEN \A k \in DOMAIN changes :
                        <<changes[k].dataset, changes[k].cycle>> # probes(cycles)[i]
                ELSE Reported(i, "new cycle")

\* C10 happens: a new resource was reported next to a known one that was not
C10_Witness ==
    /\ pc = "decide"
    /\ \E i, j \in DOMAIN probes(cycles) :
          /\ NewResource(i) /\ Reported(i, "new cycle")
          /\ ~NewResource(j) /\ upstream[ProbeUrl(j)] > 0

\* The number of probes detect_changes issues for a (dataset, cycle) pair
ProbeCount(d, c) ==
    Cardinality({i \in DOMAIN probes(cycles) : probes(cycles)[i] = <<d, c>>})

\* detect_changes has returned no ChangeInfo for the i-th probe
Unreported(i) ==
    \A k \in DOMAIN changes : <<changes[k].dataset, changes[k].cycle>> # probes(cycles)[i]

\* C11 as the specification has it: detect_changes probes once every
\* configured (dataset, cycle) pair of the requested cycles at or after the
\* dataset's start_year, and no pair before it.
C11_ProbesEveryConfiguredPair ==
    pc = "decide" =>
        \A d \in DatasetNames : \A c \in Range(cycles) :
            ProbeCount(d, c) = IF c >= start_year(d) THEN 1 ELSE 0

\* C11: detect_changes probes once every configured (dataset, cycle) pair of
\* the requested cycles at or after the dataset's start_year, but for the
\* pairs of expenditures_by_state, which it never probes, and no pair before
\* the start_year; a pair whose resource is missing upstream (404) gets no
\* ChangeInfo, and detect_changes returns.
C11_ProbesOncePerPair ==
    pc = "decide" =>
        /\ \A d \in DatasetNames : \A c \in Range(cycles) :
              ProbeCount(d, c)
                = IF c >= start_year(d) /\ d # "expenditures_by_state" THEN 1 ELSE 0
        /\ \A i \in DOMAIN probes(cycles) : upstream[ProbeUrl(i)] = 0 => Unreported(i)
        /\ \A k \in DOMAIN changes : ProbeCount(changes[k].dataset, changes[k].cycle) = 1

\* C11 happens: a requested cycle is before the start_year of a dataset, a
\* probed resource is missing upstream, and another one was reported
C11_Witness ==
    /\ pc = "decide"
    /\ \E d \in DatasetNames : \E c \in Range(cycles) : c < start_year(d)
    /\ \E i \in DOMAIN probes(cycles) : upstream[ProbeUrl(i)] = 0
    /\ changes # <<>>

\* C12: a probe that fails (transport error, timeout, error status other
\* than 404) gives no ChangeInfo for its pair, and every other pair is probed
\* and classified as it is without the failure; detect_changes returns.
C12_ProbeFailureIsolated ==
    pc = "decide" =>
        \A i \in DOMAIN probes(cycles) :
            IF i \in hist.failing
            THEN Unreported(i)
            ELSE LET r == probe_one(state, probes(cycles)[i], FALSE)
                 IN  IF r = <<>> THEN Unreported(i)
                     ELSE \E k \in DOMAIN changes : changes[k] = r[1]

\* C12 happens: a probe failed and a pair probed after it was reported
C12_Witness ==
    /\ pc = "decide"
    /\ \E i \in hist.failing : \E j \in DOMAIN probes(cycles) :
          /\ i < j
          /\ j \notin hist.failing
          /\ ~Unreported(j)

\* C13: detect_changes leaves the UpdateState in memory, the state file and
\* every output file as they are, and when it has returned no change has been
\* integrated yet: the UpdateState is still the one loaded at the start.
C13_DetectReadOnly ==
    /\ [][(pc = "detect" /\ pc' = "decide") =>
            (/\ state' = state
             /\ stateDisk' = stateDisk
             /\ out' = out /\ bak' = bak /\ tmp' = tmp)]_vars
    /\ [](pc \in {"detect", "decide"} =>
            (state = load(hist.diskAtStart) /\ log = <<>> /\ hist.saves = 0))

\* C13 happens: detection has reported a change with metadata stored and
\* output files written by an earlier run
C13_Witness ==
    /\ pc = "decide"
    /\ changes # <<>>
    /\ state.cycles # EmptyDict
    /\ \E d \in DatasetNames : out[d].exists

\* ---------------------------------------- async_utils/download.py on its own

DEFAULT_MAX_RETRIES == 3
DEFAULT_RETRY_DELAY == 2

\* A variant that lets the last HTTPError out
on_failure_raise(attempt, max_retries, retry_delay) ==
    IF attempt < max_retries - 1
    THEN [kind |-> "sleep", delay |-> retry_delay * (attempt + 1)]
    ELSE [kind |-> "raise", delay |-> 0]

\* A variant that doubles the delay and sleeps after every failure
on_failure_exponential(attempt, max_retries, retry_delay) ==
    [kind |-> "sleep", delay |-> retry_delay * (2 ^ attempt)]

\* download_with_retry, `except httpx.HTTPError`: sleep and go on, or return False
on_failure(attempt, max_retries, retry_delay) ==
    IF attempt < max_retries - 1
    THEN [kind |-> "sleep", delay |-> retry_delay * (attempt + 1)]
    ELSE [kind |-> "return", delay |-> 0]

\* download_with_retry is called with max_retries and retry_delay (seconds)
InitDownload ==
    /\ InitProgram
    /\ hc = NoHasChanged
    /\ agg = NoSummarize
    /\ dt = NoDates /\ zx = NoExtract /\ vf = NoVerify
    /\ dl \in {[max_retries |-> m, retry_delay |-> d, attempt |-> 0, tries |-> 0,
                fails |-> 0, slept |-> <<>>, ret |-> None, raised |-> FALSE,
                pc |-> "try"] : m \in 0..MaxRetries, d \in 1..MaxDelay}

\* Nothing but the download moves
DownloadOnly ==
    UNCHANGED <<upstream, stateDisk, state, files, pc, runs, args, changes, counters,
                frame, log, hist, last, faults, hc, agg, dt, zx, vf>>

\* An attempt streams the whole body: `return True`
AttemptCompletes ==
    /\ dl.pc = "try"
    /\ dl.attempt < dl.max_retries
    /\ dl' = [dl EXCEPT !.tries = @ + 1, !.ret = Some(TRUE), !.pc = "done"]
    /\ DownloadOnly

\* An attempt ends with an httpx.HTTPError
AttemptFails ==
    /\ dl.pc = "try"
    /\ dl.attempt < dl.max_retries
    /\ LET f == on_failure(dl.attempt, dl.max_retries, dl.retry_delay)
       IN  dl' = IF f.kind = "sleep"
                 THEN [dl EXCEPT !.tries = @ + 1, !.fails = @ + 1,
                                 !.slept = Append(@, f.delay), !.attempt = @ + 1]
                 ELSE [dl EXCEPT !.tries = @ + 1, !.fails = @ + 1,
                                 !.ret = IF f.kind = "return" THEN Some(FALSE) ELSE None,
                                 !.raised = (f.kind = "raise"), !.pc = "done"]
    /\ DownloadOnly

\* range(max_retries) is used up: the `return False` after the loop
LoopEnds ==
    /\ dl.pc = "try"
    /\ dl.attempt >= dl.max_retries
    /\ dl' = [dl EXCEPT !.ret = Some(FALSE), !.pc = "done"]
    /\ DownloadOnly

NextDownload == AttemptCompletes \/ AttemptFails \/ LoopEnds

SpecDownload == InitDownload /\ [][NextDownload]_vars

\* The event loop runs the coroutine on: a started call goes on to its end
FairDownload == SpecDownload /\ WF_vars(NextDownload)

\* C14: download_with_retry makes at most max_retries attempts, returns True
\* at the first attempt that completes, returns False and does not raise
\* after max_retries failed attempts, and always comes to its end.
C14_BoundedRetry ==
    /\ [](/\ dl.tries <= dl.max_retries
          /\ ~dl.raised
          /\ dl.ret = Some(TRUE) => dl.tries = dl.fails + 1
          /\ dl.ret = Some(FALSE) => (dl.tries = dl.max_retries /\ dl.fails = dl.max_retries)
          /\ dl.pc = "done" => dl.ret # None)
    /\ <>(dl.pc = "done")

\* C14 happens: with the defaults, three attempts failed and False came back
C14_Witness ==
    /\ dl.max_retries = DEFAULT_MAX_RETRIES
    /\ dl.retry_delay = DEFAULT_RETRY_DELAY
    /\ dl.fails = DEFAULT_MAX_RETRIES
    /\ dl.ret = Some(FALSE)

\* C15: the wait after the k-th failed attempt is retry_delay * k, for k from
\* 1 to max_retries - 1, and there is no wait after the last failed attempt.
C15_LinearBackoff ==
    dl.max_retries > 0 =>
        /\ \A k \in DOMAIN dl.slept : dl.slept[k] = dl.retry_delay * k
        /\ Len(dl.slept) = IF dl.fails = dl.max_retries THEN dl.fails - 1 ELSE dl.fails

\* C15 happens: with the defaults, the waits were 2 s and 4 s and False came back
C15_Witness ==
    /\ dl.max_retries = DEFAULT_MAX_RETRIES
    /\ dl.retry_delay = DEFAULT_RETRY_DELAY
    /\ dl.slept = <<2, 4>>
    /\ dl.ret = Some(FALSE)

\* C16: with --dry-run no step of a run changes an output, backup or
\* temporary file or the state file, and the UpdateState in memory stays the
\* one loaded at the start, whatever the list of ChangeInfo is.
C16_DryRunWritesNothing ==
    /\ [][(dry_run /\ pc \notin Stopped) =>
            (out' = out /\ bak' = bak /\ tmp' = tmp /\ stateDisk' = stateDisk)]_vars
    /\ [](dry_run => (state = load(hist.diskAtStart) /\ stateDisk = hist.diskAtStart
                      /\ hist.saves = 0))

\* C16 happens: a dry run with at least two ChangeInfo, all counted as
\* successful, has returned
C16_Witness ==
    /\ dry_run
    /\ pc = "exited" /\ hist.ended = "returned"
    /\ Len(changes) >= 2
    /\ successful = Len(changes)

\* C17: with --force, integrate_changes gets a ChangeInfo for every probed
\* pair whose resource exists upstream, those detection found unchanged
\* included.
C17_ForceCoversEveryPair ==
    (force /\ pc \in Integrating) =>
        \A i \in DOMAIN probes(cycles) : upstream[ProbeUrl(i)] > 0 => ~Unreported(i)

\* C18: a run that comes to the end of run() exits with 0 when no ChangeInfo
\* failed, nothing to do included, and with a code other than 0 exactly when
\* at least one ChangeInfo failed.
C18_ExitCode ==
    (pc = "exited" /\ hist.ended = "returned") =>
        /\ hist.exit # 0 <=> Attempts({"false", "raised"}) # {}
        /\ hist.exit = 0 <=> Cardinality(Attempts({"ok", "dry"})) = Len(changes)
        /\ changes = <<>> => hist.exit = 0

\* C18 happens: a run with a succeeded and a failed ChangeInfo has exited with 1
C18_Witness ==
    /\ pc = "exited" /\ hist.ended = "returned"
    /\ Attempts({"ok"}) # {}
    /\ Attempts({"false", "raised"}) # {}
    /\ hist.exit = 1

\* The outputs one ChangeInfo for expenditures_by_category is to update
Aliased == {"expenditures_by_category", "expenditures_by_state"}

\* C19: no ChangeInfo is ever for expenditures_by_state; every attempted
\* ChangeInfo has one download_cycle call, of its own url; and when a
\* ChangeInfo for expenditures_by_category has succeeded, the outputs of
\* expenditures_by_category and of expenditures_by_state both hold, for its
\* cycle, the rows computed from the one downloaded input.
C19_Aliasing ==
    /\ \A k \in DOMAIN changes : changes[k].dataset # "expenditures_by_state"
    /\ (pc \in Integrating /\ ~dry_run) =>
          /\ Len(hist.fetched)
               = Len(log) + IF pc \in {"update", "write", "rename"} THEN 1 ELSE 0
          /\ \A j \in DOMAIN hist.fetched : hist.fetched[j] = changes[j].url
    /\ \A i \in Attempts({"ok"}) :
          log[i].change.dataset = "expenditures_by_category" =>
             \A d \in Aliased :
                /\ out[d].exists
                /\ BagOf(CycleRows(out[d].rows, log[i].change.cycle))
                     = BagOf(process_cycle(d, log[i].change.cycle, log[i].ver))

\* C19 happens: one ChangeInfo for expenditures_by_category was integrated
\* with one download, and the two outputs differ
C19_Witness ==
    /\ pc = "after"
    /\ Len(changes) = 1
    /\ changes[1].dataset = "expenditures_by_category"
    /\ Attempts({"ok"}) = {1}
    /\ Len(hist.fetched) = 1
    /\ out["expenditures_by_state"].rows # <<>>
    /\ out["expenditures_by_state"].rows # out["expenditures_by_category"].rows

\* ------------------------------- SummarizeProcessor.process_cycle on its own

\* The four records of the input: a memo record, an amended record, and two
\* original records with one sub_id, all of one date, category and state
FourRecords(a1, a2) ==
    << Txn(2, Some("X"), Some("N"), Some(D2021), 1, 2, 100),
       Txn(3, None, Some("A"), Some(D2021), 1, 2, 1000),
       Txn(1, None, Some("N"), Some(D2021), 1, 2, a1),
       Txn(1, None, Some("N"), Some(D2021), 1, 2, a2) >>

\* The orders in which four records can stand in the input file
Orders == {p \in [1..4 -> 1..4] : \A i, j \in 1..4 : p[i] = p[j] => i = j}

InitSummarize ==
    /\ InitProgram
    /\ hc = NoHasChanged
    /\ dl = NoDownload
    /\ dt = NoDates /\ zx = NoExtract /\ vf = NoVerify
    /\ agg \in {[name |-> n, cycle |-> 2022,
                 rows |-> [i \in 1..4 |-> FourRecords(a1, a2)[p[i]]],
                 res |-> <<>>, done |-> FALSE] :
                   n \in Range(summarize_datasets), p \in Orders,
                   a1 \in 1..MaxAmount, a2 \in 1..MaxAmount}

\* SummarizeProcessor(dataset).process_cycle(input_file, cycle) is called
Summarize ==
    /\ ~agg.done
    /\ agg' = [agg EXCEPT !.res = summarize_process_cycle(agg.name, agg.rows, agg.cycle),
                          !.done = TRUE]
    /\ UNCHANGED <<upstream, stateDisk, state, files, pc, runs, args, changes, counters,
                   frame, log, hist, last, faults, hc, dl, dt, zx, vf>>

NextSummarize == Summarize

SpecSummarize == InitSummarize /\ [][NextSummarize]_vars

\* The records of the input that are neither memo records nor amended
Originals(rows) == SelectSeq(SelectSeq(rows, NotMemo), NotAmended)

\* C20 as the specification has it: the one row of the result adds up the
\* amounts of the two original records.
C20_SumOfBothOriginals ==
    agg.done =>
        /\ Len(agg.res) = 1
        /\ agg.res[1].total_amount = SumAmount(Originals(agg.rows))

\* C20: the result is one row; the memo record and the amended record are
\* left out, and of the two original records with one sub_id only the first
\* of the input counts: total_amount is its amount and transaction_count is 1.
C20_FirstOriginalOnly ==
    agg.done =>
        /\ Len(agg.res) = 1
        /\ agg.res[1].election_cycle = agg.cycle
        /\ agg.res[1].total_amount = Originals(agg.rows)[1].amount
        /\ agg.res[1].transaction_count = 1

\* C20 happens: the two original records have different amounts, the memo
\* record stands first in the input, and the row has the amount of the first
\* original record
C20_Witness ==
    /\ agg.done
    /\ agg.rows[1].memo_cd = Some("X")
    /\ Originals(agg.rows)[1].amount # Originals(agg.rows)[2].amount
    /\ agg.res[1].total_amount = Originals(agg.rows)[1].amount

\* --------------------------------- process_cycle on any short input file

\* The records of an input file: two sub_ids, with and without the memo
\* mark, original and amended, dated in two years
Records ==
    {Txn(s, m, a, Some(d), 1, 2, 1) :
        s \in 1..2, m \in {None, Some("X")}, a \in {Some("N"), Some("A")},
        d \in {D2021, D2022}}

InitCount ==
    /\ InitProgram
    /\ hc = NoHasChanged
    /\ dl = NoDownload
    /\ dt = NoDates /\ zx = NoExtract /\ vf = NoVerify
    /\ agg \in {[name |-> n, cycle |-> 2022, rows |-> rows, res |-> <<>>, done |-> FALSE] :
                   n \in Range(summarize_datasets),
                   rows \in UNION {[1..k -> Records] : k \in 0..MaxRecords}}

SpecCount == InitCount /\ [][NextSummarize]_vars

\* A record that is neither marked as a memo nor amended
IsOriginal(r) ==
    /\ r.memo_cd # Some("X")
    /\ r.amndt_ind = None \/ r.amndt_ind = Some("N")

RECURSIVE SumCount(_)
SumCount(res) ==
    IF res = <<>> THEN 0 ELSE Head(res).transaction_count + SumCount(Tail(res))

\* C26: every row of the result of process_cycle has transaction_count >= 1,
\* and the counts add up to the number of distinct sub_ids among the records
\* of the input that are neither memo records nor amended: a record whose
\* sub_id is that of an earlier memo or amended record counts.
C26_CountsDistinctOriginals ==
    agg.done =>
        /\ \A i \in DOMAIN agg.res : agg.res[i].transaction_count >= 1
        /\ SumCount(agg.res)
             = Cardinality({agg.rows[i].sub_id :
                               i \in {j \in DOMAIN agg.rows : IsOriginal(agg.rows[j])}})

\* C26 happens: an original record follows a memo or amended record of its
\* sub_id, and is counted
C26_Witness ==
    /\ agg.done
    /\ \E i, j \in DOMAIN agg.rows :
          /\ i < j
          /\ ~IsOriginal(agg.rows[i])
          /\ IsOriginal(agg.rows[j])
          /\ agg.rows[i].sub_id = agg.rows[j].sub_id
          /\ \A k \in DOMAIN agg.rows : IsOriginal(agg.rows[k]) => k = j
    /\ SumCount(agg.res) = 1

\* ------------------------------------------------ utils/dates.py on its own

\* The characters of the date strings: two digits and the separator
DateChars == {"0", "1", "/"}

\* None and every string of up to MaxDateLen characters
DateInputs ==
    {None} \cup UNION {{Some(s) : s \in [1..n -> DateChars]} : n \in 0..MaxDateLen}

InitDates ==
    /\ InitProgram
    /\ hc = NoHasChanged /\ dl = NoDownload /\ agg = NoSummarize
    /\ zx = NoExtract /\ vf = NoVerify
    /\ dt \in {[date_str |-> d, year |-> None, month |-> None, done |-> FALSE] :
                  d \in DateInputs}

\* extract_year_from_date(date_str) and extract_month_from_date(date_str) are called
ExtractDate ==
    /\ ~dt.done
    /\ dt' = [dt EXCEPT !.year = extract_year_from_date(dt.date_str),
                        !.month = extract_month_from_date(dt.date_str),
                        !.done = TRUE]
    /\ UNCHANGED <<upstream, stateDisk, state, files, pc, runs, args, changes, counters,
                   frame, log, hist, last, faults, hc, dl, agg, zx, vf>>

NextDates == ExtractDate

SpecDates == InitDates /\ [][NextDates]_vars

\* A string of decimal digits and its value
AllDigits(s) == s # <<>> /\ \A i \in DOMAIN s : IsDigit(s[i])
RECURSIVE Decimal(_)
Decimal(s) ==
    IF s = <<>> THEN 0 ELSE 10 * Decimal(SubSeq(s, 1, Len(s) - 1)) + DigitVal(s[Len(s)])

\* MM/DD/YYYY (one or two digits of month and day), MMDDYYYY or MDDYYYY
InDateFormat(s) ==
    \/ LET parts == split_slash(s, <<>>)
       IN  /\ Len(parts) = 3
           /\ \A i \in 1..3 : AllDigits(parts[i])
           /\ Len(parts[1]) \in {1, 2} /\ Len(parts[2]) \in {1, 2} /\ Len(parts[3]) = 4
    \/ Len(s) \in {7, 8} /\ AllDigits(s)

\* The characters extract_year_from_date reads, and those extract_month_from_date reads
YearPart(s) ==
    LET parts == split_slash(s, <<>>)
    IN  IF HasSlash(s) /\ Len(parts) = 3 /\ Len(parts[3]) = 4 THEN parts[3]
        ELSE IF Len(s) \in {7, 8} THEN SubSeq(s, Len(s) - 3, Len(s))
        ELSE <<>>
MonthPart(s) ==
    LET parts == split_slash(s, <<>>)
    IN  IF HasSlash(s) /\ Len(parts) = 3 /\ Len(parts[1]) \in {1, 2} THEN parts[1]
        ELSE IF Len(s) \in {7, 8} THEN SubSeq(s, 1, Len(s) - 6)
        ELSE <<>>

Entry(filename, is_dir) == [filename |-> filename, is_dir |-> is_dir]

\* Entries at the top, in a directory, named like an extracted file, and a directory
Entries ==
    { Entry(<<"a.txt">>, FALSE), Entry(<<"d", "a.txt">>, FALSE),
      Entry(<<"2020_a.txt">>, FALSE), Entry(<<"2022_a.txt">>, FALSE),
      Entry(<<"d">>, TRUE) }

\* The archives of up to MaxEntries entries
Archives ==
    {[cycle |-> c, infolist |-> l] :
        c \in Cycles, l \in UNION {[1..n -> Entries] : n \in 0..MaxEntries}}

\* Path(info.filename).name
basename(filename) == filename[Len(filename)]

\* A variant that keeps the name of the entry
new_name_plain(cycle, original_name, prefix_with_cycle) == original_name

\* `if prefix_with_cycle and cycle: f"{cycle}_{original_name}"`
new_name(cycle, original_name, prefix_with_cycle) ==
    IF prefix_with_cycle /\ cycle # 0
    THEN ToString(cycle) \o "_" \o original_name
    ELSE original_name

\* extract_zip(zip_path, dest_dir, cycle): the paths of the entries from the
\* i-th on, in order
RECURSIVE extract_from(_, _)
extract_from(archive, i) ==
    IF i > Len(archive.infolist) THEN <<>>
    ELSE (IF archive.infolist[i].is_dir THEN <<>>
          ELSE <<new_name(archive.cycle, basename(archive.infolist[i].filename), TRUE)>>)
         \o extract_from(archive, i + 1)

\* The files of dest_dir after the paths were written: a later write of a
\* path replaces what was there. A file holds the archive it came from.
RECURSIVE written(_, _, _)
written(dir, paths, k) ==
    IF paths = <<>> THEN dir
    ELSE written((Head(paths) :> k) @@ dir, Tail(paths), k)

\* Two archives are to be extracted into one empty work_dir
InitExtract ==
    /\ InitProgram
    /\ hc = NoHasChanged /\ dl = NoDownload /\ agg = NoSummarize
    /\ dt = NoDates /\ vf = NoVerify
    /\ zx \in {[archives |-> <<a, b>>, next |-> 1, work_dir |-> <<>>,
                extracted |-> <<>>, done |-> FALSE] : a \in Archives, b \in Archives}

\* extract_zip of the next archive
ExtractZip ==
    /\ ~zx.done
    /\ LET paths == extract_from(zx.archives[zx.next], 1)
       IN  zx' = [zx EXCEPT !.extracted = Append(@, paths),
                            !.work_dir = written(@, paths, zx.next),
                            !.next = @ + 1,
                            !.done = (zx.next = Len(zx.archives))]
    /\ UNCHANGED <<upstream, stateDisk, state, files, pc, runs, args, changes, counters,
                   frame, log, hist, last, faults, hc, dl, agg, dt, vf>>

NextExtract == ExtractZip

SpecExtract == InitExtract /\ [][NextExtract]_vars

\* The entries of an archive that are files
FileEntries(archive) == {i \in DOMAIN archive.infolist : ~archive.infolist[i].is_dir}

\* C22: extract_zip returns one path per file entry and none for a directory
\* entry, each path being the cycle, `_` and the last component of the
\* entry's name; and when two archives of different cycles were extracted
\* into one directory, no path of one is a path of the other, so every file
\* of the first is still there.
C22_ExtractionNaming ==
    /\ \A k \in DOMAIN zx.extracted :
          LET archive == zx.archives[k]
          IN  /\ Len(zx.extracted[k]) = Cardinality(FileEntries(archive))
              /\ \A p \in Range(zx.extracted[k]) :
                    \E i \in FileEntries(archive) :
                       p = ToString(archive.cycle) \o "_"
                             \o archive.infolist[i].filename[Len(archive.infolist[i].filename)]
    /\ (zx.done /\ zx.archives[1].cycle # zx.archives[2].cycle) =>
          /\ Range(zx.extracted[1]) \cap Range(zx.extracted[2]) = {}
          /\ \A p \in Range(zx.extracted[1]) : zx.work_dir[p] = 1

\* C22 happens: two archives of different cycles with the same entries, one
\* of them in a directory and one a directory, were extracted
C22_Witness ==
    /\ zx.done
    /\ zx.archives[1].cycle # zx.archives[2].cycle
    /\ zx.archives[1].infolist = zx.archives[2].infolist
    /\ \E i \in DOMAIN zx.archives[1].infolist : zx.archives[1].infolist[i].is_dir
    /\ \E i \in DOMAIN zx.archives[1].infolist : Len(zx.archives[1].infolist[i].filename) = 2
    /\ zx.extracted[1] # <<>>

\* ------------------------------------------------- the verify command on its own

\* `extreme_threshold = 1_000_000_000_000`: the amounts of an output file are
\* counted in thousands of dollars here, to stay within 32-bit integers
extreme_threshold == 1000000000

\* dataset.output_file
output_file(name) == name \o ".csv"

\* The columns declared for the output of a dataset: `columns` of a combine
\* dataset plus election_cycle, and the group, amount and count columns of a
\* summarize dataset
DeclaredColumns(name) ==
    IF IsCombine(name) THEN {"election_cycle", "row"}
    ELSE {"election_cycle", "transaction_year",
          IF name = "expenditures_by_state" THEN "state" ELSE "category",
          "total_amount", "transaction_count"}

\* A file of data_dir: absent, one that read_csv cannot read, or a table
NoDataFile == [exists |-> FALSE, readable |-> FALSE, columns |-> {}, rows |-> <<>>]
Unreadable == [exists |-> TRUE, readable |-> FALSE, columns |-> {}, rows |-> <<>>]
DataFile(columns, rows) ==
    [exists |-> TRUE, readable |-> TRUE, columns |-> columns,
     rows |-> [i \in DOMAIN rows |-> [c \in columns |-> rows[i][c]]]]

\* A row of an output file; a column the file lacks is dropped by DataFile
DataRow(cycle, amount, count) ==
    [c \in {"election_cycle", "transaction_year", "state", "category", "row",
            "total_amount", "transaction_count"} |->
        CASE c = "election_cycle" -> cycle
          [] c = "total_amount" -> Some(amount)
          [] c = "transaction_count" -> Some(count)
          [] OTHER -> Some(1)]

\* The files a dataset's output may be: absent, unreadable, sound, without
\* one of its columns, empty, with a null or an early election_cycle, and for
\* a summarize dataset with an amount at or beyond the threshold or a count
\* that is not positive
DataFiles(name) ==
    LET all == DeclaredColumns(name)
        good == DataRow(Some(2022), 1, 1)
    IN  {NoDataFile, Unreadable,
         DataFile(all, <<good>>),
         DataFile(all, <<>>),
         DataFile(all, <<good, DataRow(None, 1, 1)>>),
         DataFile(all, <<DataRow(Some(1066), 1, 1), good>>),
         DataFile(all \ {"election_cycle"}, <<good>>),
         DataFile(all \ {"transaction_year", "row"}, <<good>>)}
        \cup
        (IF IsCombine(name) THEN {}
         ELSE {DataFile(all, <<DataRow(Some(2022), extreme_threshold, 1)>>),
               DataFile(all, <<good, DataRow(Some(2022), extreme_threshold + 1, 1)>>),
               DataFile(all, <<DataRow(Some(2022), 0 - extreme_threshold - 1, 2)>>),
               DataFile(all, <<good, DataRow(Some(2022), 1, 0)>>),
               DataFile(all \ {"total_amount"}, <<DataRow(Some(2022), 1, 0)>>),
               DataFile(all \ {"transaction_count"}, <<good>>)})

\* ValidationResult
ValidationResult(file_name, row_count, column_count, has_election_cycle, null_election_cycle, min_cycle, max_cycle, issues) ==
    [file_name |-> file_name, row_count |-> row_count, column_count |-> column_count,
     has_election_cycle |-> has_election_cycle,
     null_election_cycle |-> null_election_cycle,
     min_cycle |-> min_cycle, max_cycle |-> max_cycle, issues |-> issues]

\* ValidationResult.is_valid
is_valid(r) == Len(r.issues) = 0

\* abs()
Abs(n) == IF n < 0 THEN 0 - n ELSE n

\* The rows of f whose election_cycle is null, and the cycles of the others
NullCycles(f) == {i \in DOMAIN f.rows : f.rows[i]["election_cycle"] = None}
KnownCycles(f) == {f.rows[i]["election_cycle"][1] : i \in DOMAIN f.rows \ NullCycles(f)}

\* cycles.item(0, 0) and cycles.item(-1, 0) of the sorted unique cycles, where
\* a null sorts first
min_cycle(f) ==
    IF NullCycles(f) # {} \/ KnownCycles(f) = {} THEN None
    ELSE Some(CHOOSE c \in KnownCycles(f) : \A d \in KnownCycles(f) : c <= d)
max_cycle(f) ==
    IF KnownCycles(f) = {} THEN None
    ELSE Some(CHOOSE c \in KnownCycles(f) : \A d \in KnownCycles(f) : d <= c)

\* validate_file(file_path)
validate_file(file_name, f) ==
    IF ~f.readable
    THEN ValidationResult(file_name, 0, 0, FALSE, 0, None, None, <<"Failed to read file">>)
    ELSE LET row_count == Len(f.rows)
             has_election_cycle == "election_cycle" \in f.columns
             null_count == IF has_election_cycle THEN Cardinality(NullCycles(f)) ELSE 0
             issues ==
                (IF ~has_election_cycle THEN <<"Missing election_cycle column">>
                 ELSE IF null_count > 0
                      THEN <<ToString(null_count) \o " null election_cycle values">>
                      ELSE <<>>)
                \o (IF row_count = 0 THEN <<"File is empty">> ELSE <<>>)
         IN  ValidationResult(file_name, row_count, Cardinality(f.columns),
                              has_election_cycle, null_count,
                              IF has_election_cycle THEN min_cycle(f) ELSE None,
                              IF has_election_cycle THEN max_cycle(f) ELSE None,
                              issues)

\* validate_transaction_amounts(file_path)
validate_transaction_amounts(f) ==
    IF ~f.readable THEN <<"Could not read file">>
    ELSE IF "total_amount" \notin f.columns THEN <<>>
    ELSE LET extreme_count ==
                 Cardinality({i \in DOMAIN f.rows :
                                 Abs(f.rows[i]["total_amount"][1]) > extreme_threshold})
             zero_count ==
                 IF "transaction_count" \in f.columns
                 THEN Cardinality({i \in DOMAIN f.rows :
                                      f.rows[i]["transaction_count"][1] <= 0})
                 ELSE 0
         IN  (IF extreme_count > 0
              THEN <<ToString(extreme_count) \o " rows with amounts > $1 trillion">>
              ELSE <<>>)
             \o (IF zero_count > 0
                 THEN <<ToString(zero_count) \o " rows with zero/negative transaction_count">>
                 ELSE <<>>)

\* A variant that finds nothing wrong with an absent file
missing_result_clean(file_name) ==
    ValidationResult(file_name, 0, 0, FALSE, 0, None, None, <<>>)

\* The result verify_all gives for an absent file
missing_result(file_name) ==
    ValidationResult(file_name, 0, 0, FALSE, 0, None, None, <<"File not found">>)

\* The result verify_all appends for one dataset
verify_one(name, f) ==
    IF ~f.exists THEN missing_result(output_file(name))
    ELSE IF IsCombine(name) THEN validate_file(output_file(name), f)
    ELSE [validate_file(output_file(name), f) EXCEPT
             !.issues = @ \o validate_transaction_amounts(f)]

\* The datasets in the order verify_all visits them
VerifyOrder == combine_datasets \o summarize_datasets

\* verify_all(config)
verify_all(data_dir) ==
    [i \in DOMAIN VerifyOrder |-> verify_one(VerifyOrder[i], data_dir[VerifyOrder[i]])]

\* The verify command is about to run on some data directory
InitVerify ==
    /\ InitProgram
    /\ hc = NoHasChanged /\ dl = NoDownload /\ agg = NoSummarize
    /\ dt = NoDates /\ zx = NoExtract
    /\ \E d \in [DatasetNames -> UNION {DataFiles(n) : n \in DatasetNames}] :
          /\ \A n \in DatasetNames : d[n] \in DataFiles(n)
          /\ vf = [data_dir |-> d, results |-> <<>>, exit |-> 0, done |-> FALSE]

\* verify: verify_all, the report, and `raise SystemExit(1)` if a result is
\* not valid
Verify ==
    /\ ~vf.done
    /\ LET results == verify_all(vf.data_dir)
       IN  vf' = [vf EXCEPT !.results = results,
                            !.exit = IF \E i \in DOMAIN results : ~is_valid(results[i])
                                     THEN 1 ELSE 0,
                            !.done = TRUE]
    /\ UNCHANGED <<upstream, stateDisk, state, files, pc, runs, args, changes, counters,
                   frame, log, hist, last, faults, hc, dl, agg, dt, zx>>

NextVerify == Verify

SpecVerify == InitVerify /\ [][NextVerify]_vars

\* The verify command has run
Verified == vf.done /\ vf.results # <<>>

\* The file of the i-th dataset and what the i-th result says
VerifiedFile(i) == vf.data_dir[VerifyOrder[i]]

\* What is wrong with a readable file of a dataset: a declared column is not
\* there, an election_cycle is null, and for a summarize dataset an amount
\* beyond the threshold or a count that is not positive
LacksColumn(name, f) == DeclaredColumns(name) \ f.columns # {}
HasNullCycle(f) == "election_cycle" \in f.columns /\ NullCycles(f) # {}
HasExtremeAmount(f) ==
    /\ "total_amount" \in f.columns
    /\ \E i \in DOMAIN f.rows : Abs(f.rows[i]["total_amount"][1]) > extreme_threshold
HasBadCount(f) ==
    /\ "transaction_count" \in f.columns
    /\ \E i \in DOMAIN f.rows : f.rows[i]["transaction_count"][1] <= 0

\* C23 as stated, apart from the range of the period which verify.py never
\* looks at: the result of every dataset whose file exists and can be read is
\* invalid when a declared column is missing, an election_cycle is null, or
\* (summarize datasets) an amount is beyond the threshold or a count is not
\* positive.
C23_InvalidWheneverFlawed ==
    Verified =>
        \A i \in DOMAIN VerifyOrder :
            LET name == VerifyOrder[i]
                f == VerifiedFile(i)
            IN  (/\ f.exists /\ f.readable
                 /\ \/ LacksColumn(name, f)
                    \/ HasNullCycle(f)
                    \/ ~IsCombine(name) /\ (HasExtremeAmount(f) \/ HasBadCount(f)))
                => ~is_valid(vf.results[i])

\* C24: after verify there is one result per configured dataset, in order
\* and under the dataset's output file name; the result of a dataset whose
\* file is absent has the one issue `File not found` and is not valid; the
\* command exits with 1 exactly when some result is not valid, so it does
\* when a file is absent; and verify changes no file of the data directory,
\* no output file and no state.
C24_OneResultPerDataset ==
    /\ [](Verified =>
            /\ Len(vf.results) = Len(combine_datasets) + Len(summarize_datasets)
            /\ \A i \in DOMAIN VerifyOrder :
                  /\ vf.results[i].file_name = output_file(VerifyOrder[i])
                  /\ ~VerifiedFile(i).exists =>
                        /\ vf.results[i].issues = <<"File not found">>
                        /\ ~is_valid(vf.results[i])
                        /\ vf.exit # 0
                  /\ VerifiedFile(i).exists =>
                        "File not found" \notin Range(vf.results[i].issues)
            /\ vf.exit = 0 <=> \A i \in DOMAIN vf.results : is_valid(vf.results[i]))
    /\ [][vf' # vf =>
            /\ vf'.data_dir = vf.data_dir
            /\ out' = out /\ bak' = bak /\ tmp' = tmp
            /\ stateDisk' = stateDisk /\ state' = state]_vars

\* C24 happens: verify ran where one file is absent and another is sound
C24_Witness ==
    /\ Verified
    /\ \E i \in DOMAIN VerifyOrder : ~VerifiedFile(i).exists
    /\ \E i \in DOMAIN VerifyOrder : VerifiedFile(i).exists /\ is_valid(vf.results[i])

\* ------------------------------------------- properties of the output files

\* The output file of d is what an unbroken sequence of completed updates left
Unbroken(d) == last[d] # None /\ last[d][1].chain /\ out[d] = last[d][1].after

\* C25: a completed update_cycle(P) leaves the rows of every other cycle as
\* they were; and when the output file is what a sequence of completed
\* updates left, each starting from the file of the one before, its rows of
\* each cycle are the rows process_cycle gave at the last update of that
\* cycle, and it has no other row.
C25_FrameOfReplace ==
    \A d \in DatasetNames :
        /\ (last[d] # None /\ out[d] = last[d][1].after) =>
              \A q \in Cycles \ {last[d][1].cycle} :
                 BagOf(CycleRows(out[d].rows, q))
                    = BagOf(CycleRows(last[d][1].before.rows, q))
        /\ Unbroken(d) =>
              /\ \A q \in DOMAIN last[d][1].latest :
                    BagOf(CycleRows(out[d].rows, q))
                       = BagOf(process_cycle(d, q, last[d][1].latest[q]))
              /\ \A i \in DOMAIN out[d].rows :
                    out[d].rows[i].election_cycle \in DOMAIN last[d][1].latest

\* C25 happens: a cycle that had rows was replaced by rows of another input
\* in a file that holds rows of another cycle
C25_Witness ==
    \E d \in DatasetNames :
        /\ Unbroken(d)
        /\ Cardinality(DOMAIN last[d][1].latest) = 2
        /\ CycleRows(last[d][1].before.rows, last[d][1].cycle) # <<>>
        /\ BagOf(CycleRows(last[d][1].before.rows, last[d][1].cycle))
             # BagOf(CycleRows(out[d].rows, last[d][1].cycle))
        /\ \E q \in Cycles \ {last[d][1].cycle} : CycleRows(out[d].rows, q) # <<>>

\* C27 as stated: whenever no process is running, after a crash in state.save
\* too, the state file is absent or a complete JSON document that
\* UpdateState.load can read: the state the run started from or the state it
\* saved.
C27_StateFileNeverPartial ==
    pc \in Stopped =>
        /\ stateDisk.kind # "partial"
        /\ stateDisk = hist.diskAtStart \/ hist.saves = 1

\* The resource of the i-th probe now shows an entity tag, a last-modified or
\* a content length other than those of the version v
HeadersDiffer(i, v) ==
    LET was == Headers(ProbeUrl(i), v)
        now == Headers(ProbeUrl(i), upstream[ProbeUrl(i)])
    IN  \/ was.etag # now.etag
        \/ was.last_modified # now.last_modified
        \/ was.content_length # now.content_length

\* The pair of the i-th probe was integrated in an earlier run, which saved
\* the state: the state has an entry for it and the last completed update of
\* its output file was of its cycle
IntegratedBefore(i) ==
    /\ get_cycle_state(state, probes(cycles)[i][1], probes(cycles)[i][2]) # None
    /\ last[probes(cycles)[i][1]] # None
    /\ last[probes(cycles)[i][1]][1].cycle = probes(cycles)[i][2]

\* C28 as stated: when detect_changes has probed a pair that an earlier run
\* integrated, detected or forced, and the resource now shows metadata other
\* than at that run, detect_changes has returned a ChangeInfo for the pair.
C28_ChangesStayDetectable ==
    pc = "decide" =>
        \A i \in DOMAIN probes(cycles) \ hist.failing :
            (/\ IntegratedBefore(i)
             /\ upstream[ProbeUrl(i)] > 0
             /\ HeadersDiffer(i, last[probes(cycles)[i][1]][1].ver))
            => ~Unreported(i)

\* The last completed update of d's file was of a cycle whose update before
\* it the process was killed in, and the file is as it left it
Recovered(d) ==
    /\ last[d] # None
    /\ last[d][1].prior # None
    /\ out[d] = last[d][1].after

\* C29 as stated: when the process was killed in update_cycle(P) and a later
\* update_cycle(P) on that file has completed, the file holds for every other
\* cycle the rows it held before the process was killed.
C29_NoLossAcrossCrash ==
    \A d \in DatasetNames :
        Recovered(d) =>
            \A q \in Cycles \ {last[d][1].cycle} :
                BagOf(CycleRows(out[d].rows, q))
                   = BagOf(CycleRows(last[d][1].prior[1].rows, q))

\* The ChangeInfo attempted last has ended as failed: process_change returned
\* False or raised
LastFailed ==
    /\ pc \in {"process", "after"}
    /\ log # <<>>
    /\ log[Len(log)].outcome \in {"false", "raised"}

\* C30 as stated: when a ChangeInfo has ended as failed, every output file is
\* as it was when process_change was called for it.
C30_FailureLeavesOutputs ==
    LastFailed => out = hist.outBefore

====
